---- MODULE Spec2Model ----
(***************************************************************************)
(* Verification model of the envelope-based BPM detector (src/main.cpp):   *)
(* the batch driver main, the facade detectBpm with its decoder handle,    *)
(* console output and outputMutex, and the pipeline stages it runs: mono   *)
(* mixing, rectification, one-pole smoothing, detectPeaks, calculateBpm.   *)
(*                                                                         *)
(* Vectors are sequences; the element the code writes v[k] is v[k + 1]     *)
(* here (At).  Sample values are exact rationals <<n, d>> in lowest terms  *)
(* with d > 0 (d = 0 stands for the result of a division by zero).  Float  *)
(* rounding is not modelled: the factors 0.1f and 0.05f are the rationals  *)
(* 1/10 and 1/20.                                                          *)
(***************************************************************************)
EXTENDS Integers, Sequences, FiniteSets, TLC

VARIABLES
    dir,        \* the directory's entries, in iteration order (their extensions)
    idx,        \* main: position of the directory iterator (0-based)
    pc,         \* position of the single thread of control
    exitCode,   \* main's return value, -1 while running
    calls,      \* per directory entry, the number of detectBpm calls made
    mutex,      \* outputMutex is held
    log,        \* the console writes made so far (cout and cerr), in order
    handles,    \* number of decoder handles currently open
    found,      \* detectBpm: result of fs::exists ("unset", "yes", "no")
    file,       \* detectBpm: SNDFILE* file ("unset", "null", "open", "closed")
    closes,     \* detectBpm: sf_close calls made by the current call
    sfinfo,     \* detectBpm: SF_INFO [frames, channels, samplerate]
    nread,      \* detectBpm: result of sf_readf_float, -1 before the read
    decoded,    \* the interleaved buffer as the decoder delivered it
    samples,    \* detectBpm: std::vector<float> samples
    mono,       \* detectBpm: std::vector<float> mono
    envelope,   \* detectBpm: std::vector<float> envelope; detectPeaks: signal
    threshold,  \* detectBpm: float threshold; detectPeaks: threshold
    minGap,     \* detectBpm: int minGap; detectPeaks: minGap
    peaks,      \* detectPeaks: std::vector<int> peaks
    bpm,        \* detectBpm: float bpm
    i,          \* the running loop's index (size_t i)
    oob,        \* a vector was read at an index outside its bounds
    stages      \* the pipeline stages the current call has entered

vars == <<dir, idx, pc, exitCode, calls, mutex, log, handles, found, file,
          closes, sfinfo, nread, decoded, samples, mono, envelope, threshold,
          minGap, peaks, bpm, i, oob, stages>>

(***************************************************************************)
(* Bounds of the model.                                                    *)
(***************************************************************************)
MaxFiles == 2
MaxSamples == 3
MaxBufLen == 8
MaxMixChannels == 4
MaxEnvLen == 4
MaxLen == 5
MaxLevel == 2
MaxGap == 2

(***************************************************************************)
(* Exact rational arithmetic standing for the float operations.            *)
(***************************************************************************)
Abs(x) == IF x < 0 THEN -x ELSE x

Sign(x) == IF x < 0 THEN -1 ELSE IF x = 0 THEN 0 ELSE 1

\* F(a, b), with a and b evaluated once each before F is applied
Strict(F(_, _), a, b) ==
    CHOOSE r \in {F(v[1], v[2]) : v \in {<<a, b>>}} : TRUE

RECURSIVE GCD(_, _)
GCDOf(a, b) == IF b = 0 THEN a ELSE GCD(b, a % b)

GCD(a, b) == Strict(GCDOf, a, b)

RatOf(n, d) ==
    IF d = 0 THEN <<Sign(n), 0>>
    ELSE <<Sign(d) * (n \div GCD(Abs(n), Abs(d))),
           Abs(d) \div GCD(Abs(n), Abs(d))>>

\* the rational n / d in lowest terms
Rat(n, d) == Strict(RatOf, n, d)

FromInt(k) == <<k, 1>>

Zero == FromInt(0)

LCM(a, b) == a * (b \div GCD(a, b))

RAddOf(a, b) ==
    IF a[2] = 0 \/ b[2] = 0 THEN Rat(a[1] * b[2] + b[1] * a[2], 0)
    ELSE Rat(a[1] * (LCM(a[2], b[2]) \div a[2])
               + b[1] * (LCM(a[2], b[2]) \div b[2]),
             LCM(a[2], b[2]))

RAdd(a, b) == Strict(RAddOf, a, b)

RSub(a, b) == RAdd(a, <<-b[1], b[2]>>)

RMulOf(a, b) ==
    Rat(Rat(a[1], b[2])[1] * Rat(b[1], a[2])[1],
        Rat(a[1], b[2])[2] * Rat(b[1], a[2])[2])

RMul(a, b) == Strict(RMulOf, a, b)

RDiv(a, b) == RMul(a, Rat(b[2], b[1]))

RAbs(a) == <<Abs(a[1]), a[2]>>

RLess(a, b) == a[1] * b[2] < b[1] * a[2]

RGreater(a, b) == RLess(b, a)

(***************************************************************************)
(* Vectors.                                                                *)
(***************************************************************************)
At(v, k) == v[k + 1]

Back(v) == v[Len(v)]

Put(v, k, x) == [v EXCEPT ![k + 1] = x]

Zeros(n) == [k \in 1..n |-> Zero]

Seqs(S, n) == [1..n -> S]

(***************************************************************************)
(* Input alphabets.                                                        *)
(***************************************************************************)
\* sample values a decoded file holds in a run of the whole program
DecodedVals == {FromInt(-1), Zero}

\* sample values of the buffers the mixing loop is run on
SampleVals == {FromInt(-1), Zero, FromInt(1)}

\* sample values of the mono signals the envelope builder is run on
MonoVals == {FromInt(-1), Rat(-1, 2), Zero, Rat(1, 2), FromInt(1)}

\* envelope values detectPeaks is run on
Levels == {FromInt(k) : k \in 0..MaxLevel}

\* thresholds detectPeaks is run with
Thresholds == {Zero, Rat(1, 20), FromInt(1)}

\* gaps detectPeaks is run with
Gaps == -1..MaxGap

\* extensions of directory entries
Extensions == {".wav", ".mp3", ".txt"}

\* channel counts a file header reports
HeaderChannels == {0, 1, 2}

\* sample rates a file header reports in a run of the whole program
HeaderRates == {44100}

\* sample rates the estimate is computed for
SampleRates == {1, 44100, 48000}

(***************************************************************************)
(* Constants of the program.                                               *)
(***************************************************************************)
smoothingFactor == Rat(1, 10)

PeakThreshold == Rat(1, 20)

MinGapSamples == 500

BpmDivisor == 35

(***************************************************************************)
(* detectPeaks (lines 15-26).                                              *)
(***************************************************************************)
\* a > b for two size_t values, each given by its signed representative:
\* a negative representative stands for the value wrapped around 2^64
SizeGreater(a, b) ==
    IF (a < 0) = (b < 0) THEN a > b ELSE a < 0

\* the loop condition i < signal.size() - 1, computed in size_t
ScanContinues(k, n) == SizeGreater(n - 1, k)

\* signal[i] is a local maximum above the threshold
PeakTest(signal, k, th) ==
    /\ RGreater(At(signal, k), At(signal, k - 1))
    /\ RGreater(At(signal, k), At(signal, k + 1))
    /\ RGreater(At(signal, k), th)

\* GapExceeds with >= written for >
GapExceedsOrEqual(k, back, gap) == ~SizeGreater(gap, k - back)

\* (i - peaks.back()) > minGap: i is size_t, so both operands of > are
\* converted to size_t
GapExceeds(k, back, gap) == SizeGreater(k - back, gap)

\* the body of the scan loop: the peak list after index k
PeakStep(pk, signal, k, th, gap) ==
    IF PeakTest(signal, k, th) /\ (pk = <<>> \/ GapExceeds(k, Back(pk), gap))
    THEN Append(pk, k)
    ELSE pk

(***************************************************************************)
(* calculateBpm (lines 29-42).                                             *)
(***************************************************************************)
\* totalTimeBetweenPeaks after the loop has run for i = 1..k
RECURSIVE TotalTime(_, _, _)
TotalTime(pk, rate, k) ==
    IF k < 1 THEN Zero
    ELSE RAdd(TotalTime(pk, rate, k - 1),
              RDiv(FromInt(At(pk, k) - At(pk, k - 1)), FromInt(rate)))

\* calculateBpm without the guard for a single peak
calculateBpmNoGuard(pk, rate) ==
    IF Len(pk) < 1 THEN Zero
    ELSE LET totalTimeBetweenPeaks == TotalTime(pk, rate, Len(pk) - 1)
             avgTimeBetweenPeaks ==
                 RDiv(totalTimeBetweenPeaks, FromInt(Len(pk) - 1))
         IN  RDiv(FromInt(60), avgTimeBetweenPeaks)

\* calculateBpm averaging over the number of peaks, not of intervals
calculateBpmOverPeaks(pk, rate) ==
    IF Len(pk) < 2 THEN Zero
    ELSE LET totalTimeBetweenPeaks == TotalTime(pk, rate, Len(pk) - 1)
             avgTimeBetweenPeaks ==
                 RDiv(totalTimeBetweenPeaks, FromInt(Len(pk)))
         IN  RDiv(FromInt(60), avgTimeBetweenPeaks)

calculateBpm(pk, rate) ==
    IF Len(pk) < 2 THEN Zero
    ELSE LET totalTimeBetweenPeaks == TotalTime(pk, rate, Len(pk) - 1)
             avgTimeBetweenPeaks ==
                 RDiv(totalTimeBetweenPeaks, FromInt(Len(pk) - 1))
         IN  RDiv(FromInt(60), avgTimeBetweenPeaks)

(***************************************************************************)
(* Conditions of detectBpm and main.                                       *)
(***************************************************************************)
\* Matches without the .mp3 case
MatchesWavOnly(ext) == ext = ".wav"

\* main, line 164: the entry is an audio file
Matches(ext) == ext = ".wav" \/ ext = ".mp3"

\* detectBpm, line 103
IsInvalid(info) == info.frames = 0 \/ info.channels = 0

\* ShortRead that only rejects a read of too many frames
ShortReadOverOnly(n, info) == n > info.frames

\* detectBpm, line 112
ShortRead(n, info) == n # info.frames

\* MixFrame with the frames taken to be two samples wide
MixFrameStereoStride(buf, k, ch) ==
    RDiv(RAdd(At(buf, k * 2), At(buf, k * 2 + 1)), FromInt(2))

\* detectBpm, line 124: the mono sample of frame k
MixFrame(buf, k, ch) ==
    RDiv(RAdd(At(buf, k * ch), At(buf, k * ch + 1)), FromInt(2))

\* Rectify without the absolute value
RectifyIdentity(x) == x

\* detectBpm, line 132
Rectify(x) == RAbs(x)

\* detectBpm, line 138
Smooth(cur, prev) ==
    RAdd(RMul(smoothingFactor, cur),
         RMul(RSub(FromInt(1), smoothingFactor), prev))

\* console line written at the current position
Line(kind, stream) ==
    [file |-> idx, kind |-> kind, stream |-> stream, locked |-> mutex,
     value |-> Zero]

NoInfo == [frames |-> 0, channels |-> 0, samplerate |-> 0]

(***************************************************************************)
(* Groups of variables an action leaves alone.                             *)
(***************************************************************************)
driverVars == <<dir, idx, exitCode, calls>>

decoderVars == <<handles, found, file, closes, sfinfo, nread, decoded>>

bufferVars == <<samples, mono, envelope>>

peakVars == <<threshold, minGap, peaks, bpm>>

(***************************************************************************)
(* main (lines 156-170) and listWavFiles (lines 45-52).                    *)
(***************************************************************************)
\* the "Found:" lines of listWavFiles, each written under its lock_guard
FoundLines ==
    LET hit(k) == Matches(dir[k])
        line(k) == [file |-> k - 1, kind |-> "Found", stream |-> "cout",
                    locked |-> TRUE, value |-> Zero]
    IN  [k \in 1..Cardinality({j \in 1..Len(dir) : hit(j)}) |->
            line(CHOOSE j \in 1..Len(dir) :
                    hit(j) /\ Cardinality({m \in 1..j : hit(m)}) = k)]

\* line 158
ListWavFiles ==
    /\ pc = "list"
    /\ log' = log \o FoundLines
    /\ pc' = "loop"
    /\ UNCHANGED <<driverVars, decoderVars, bufferVars, peakVars, mutex, i,
                   oob, stages>>

\* lines 163-165: the next entry is an audio file, detectBpm is called
MainCall ==
    /\ pc = "loop"
    /\ idx < Len(dir)
    /\ Matches(dir[idx + 1])
    /\ calls' = [calls EXCEPT ![idx + 1] = @ + 1]
    /\ pc' = "exists"
    /\ UNCHANGED <<dir, idx, exitCode, decoderVars, bufferVars, peakVars,
                   mutex, log, i, oob, stages>>

\* lines 163-164: the next entry is not an audio file
MainSkip ==
    /\ pc = "loop"
    /\ idx < Len(dir)
    /\ ~Matches(dir[idx + 1])
    /\ idx' = idx + 1
    /\ UNCHANGED <<dir, exitCode, calls, pc, decoderVars, bufferVars,
                   peakVars, mutex, log, i, oob, stages>>

\* line 169
MainReturn ==
    /\ pc = "loop"
    /\ idx = Len(dir)
    /\ exitCode' = 0
    /\ pc' = "done"
    /\ UNCHANGED <<dir, idx, calls, decoderVars, bufferVars, peakVars, mutex,
                   log, i, oob, stages>>

(***************************************************************************)
(* detectBpm (lines 82-154): locks, writes and returns.                    *)
(***************************************************************************)
\* std::lock_guard<std::mutex> guard(outputMutex)
LockAt(site, next) ==
    /\ pc = site
    /\ ~mutex
    /\ mutex' = TRUE
    /\ pc' = next
    /\ UNCHANGED <<driverVars, decoderVars, bufferVars, peakVars, log, i, oob,
                   stages>>

\* a write to std::cout or std::cerr
WriteAt(site, next, lines) ==
    /\ pc = site
    /\ log' = log \o lines
    /\ pc' = next
    /\ UNCHANGED <<driverVars, decoderVars, bufferVars, peakVars, mutex, i,
                   oob, stages>>

\* sf_close(file)
CloseAt(site, next) ==
    /\ pc = site
    /\ handles' = handles - 1
    /\ closes' = closes + 1
    /\ file' = "closed"
    /\ pc' = next
    /\ UNCHANGED <<driverVars, found, sfinfo, nread, decoded, bufferVars,
                   peakVars, mutex, log, i, oob, stages>>

\* return: the guard releases outputMutex, the locals go out of scope and
\* main's loop moves to the next entry
ReturnAt(site) ==
    /\ pc = site
    /\ mutex' = FALSE
    /\ idx' = idx + 1
    /\ pc' = "loop"
    /\ found' = "unset"
    /\ file' = "unset"
    /\ closes' = 0
    /\ sfinfo' = NoInfo
    /\ nread' = -1
    /\ decoded' = <<>>
    /\ samples' = <<>>
    /\ mono' = <<>>
    /\ envelope' = <<>>
    /\ threshold' = Zero
    /\ minGap' = 0
    /\ peaks' = <<>>
    /\ bpm' = Zero
    /\ i' = 0
    /\ stages' = {}
    /\ UNCHANGED <<dir, exitCode, calls, log, handles, oob>>

(***************************************************************************)
(* detectBpm: the checks of lines 84-118.                                  *)
(***************************************************************************)
\* line 84
CheckExists ==
    /\ pc = "exists"
    /\ \E ex \in {"yes", "no"} :
          /\ found' = ex
          /\ pc' = IF ex = "no" THEN "nf_lock" ELSE "open"
    /\ UNCHANGED <<driverVars, handles, file, closes, sfinfo, nread, decoded,
                   bufferVars, peakVars, mutex, log, i, oob, stages>>

NotFoundLock == LockAt("nf_lock", "nf_write")

NotFoundWrite == WriteAt("nf_write", "nf_ret", <<Line("NotFound", "cerr")>>)

NotFoundReturn == ReturnAt("nf_ret")

\* lines 90-93: sf_open fills sfinfo when it succeeds; the file holds at most
\* MaxSamples samples
Open ==
    /\ pc = "open"
    /\ \/ /\ file' = "null"
          /\ pc' = "of_lock"
          /\ UNCHANGED <<handles, sfinfo>>
       \/ \E fr \in 0..MaxSamples, ch \in HeaderChannels, sr \in HeaderRates :
             /\ fr * ch <= MaxSamples
             /\ file' = "open"
             /\ handles' = handles + 1
             /\ sfinfo' = [frames |-> fr, channels |-> ch, samplerate |-> sr]
             /\ pc' = "processing"
    /\ UNCHANGED <<driverVars, found, closes, nread, decoded, bufferVars,
                   peakVars, mutex, log, i, oob, stages>>

OpenFailedLock == LockAt("of_lock", "of_write")

\* lines 95-96
OpenFailedWrite ==
    WriteAt("of_write", "of_ret",
            <<Line("OpenFailed", "cerr"), Line("SfError", "cerr")>>)

OpenFailedReturn == ReturnAt("of_ret")

\* line 100
Processing ==
    WriteAt("processing", "check", <<Line("Processing", "cout")>>)

\* line 103
CheckInvalid ==
    /\ pc = "check"
    /\ pc' = IF IsInvalid(sfinfo) THEN "ia_lock" ELSE "read"
    /\ UNCHANGED <<driverVars, decoderVars, bufferVars, peakVars, mutex, log,
                   i, oob, stages>>

InvalidLock == LockAt("ia_lock", "ia_write")

InvalidWrite ==
    WriteAt("ia_write", "ia_close", <<Line("InvalidAudio", "cerr")>>)

\* the invalid-file path returning without sf_close
InvalidCloseSkipped ==
    /\ pc = "ia_close"
    /\ pc' = "ia_ret"
    /\ UNCHANGED <<driverVars, decoderVars, bufferVars, peakVars, mutex, log,
                   i, oob, stages>>

\* line 106
InvalidClose == CloseAt("ia_close", "ia_ret")

InvalidReturn == ReturnAt("ia_ret")

\* lines 111-112: the buffer is allocated and sf_readf_float fills it; on a
\* short read the buffer is not used again
Read ==
    /\ pc = "read"
    /\ \E n \in 0..sfinfo.frames :
          /\ nread' = n
          /\ IF ShortRead(n, sfinfo)
             THEN /\ samples' = Zeros(sfinfo.frames * sfinfo.channels)
                  /\ decoded' = decoded
                  /\ pc' = "rf_lock"
             ELSE /\ \E buf \in Seqs(DecodedVals,
                                     sfinfo.frames * sfinfo.channels) :
                        /\ samples' = buf
                        /\ decoded' = buf
                  /\ pc' = "close"
    /\ UNCHANGED <<driverVars, handles, found, file, closes, sfinfo, mono,
                   envelope, peakVars, mutex, log, i, oob, stages>>

ReadFailedLock == LockAt("rf_lock", "rf_write")

ReadFailedWrite ==
    WriteAt("rf_write", "rf_close", <<Line("ReadFailed", "cerr")>>)

ReadFailedClose == CloseAt("rf_close", "rf_ret")

ReadFailedReturn == ReturnAt("rf_ret")

\* line 118
Close == CloseAt("close", "mix")

(***************************************************************************)
(* detectBpm: mono mixing (lines 120-127).                                 *)
(***************************************************************************)
\* lines 121-122
MixTest ==
    /\ pc = "mix"
    /\ stages' = stages \cup {"mixer"}
    /\ IF sfinfo.channels > 1
       THEN /\ mono' = Zeros(Len(samples) \div sfinfo.channels)
            /\ i' = 0
            /\ pc' = "mixloop"
       ELSE /\ UNCHANGED <<mono, i>>
            /\ pc' = "env"
    /\ UNCHANGED <<driverVars, decoderVars, samples, envelope, peakVars,
                   mutex, log, oob>>

\* lines 123-125: one iteration; reading samples outside its bounds is
\* undefined and yields any value
MixStep ==
    /\ pc = "mixloop"
    /\ i < Len(mono)
    /\ IF i * sfinfo.channels + 1 < Len(samples)
       THEN /\ mono' = Put(mono, i, MixFrame(samples, i, sfinfo.channels))
            /\ oob' = oob
       ELSE /\ \E x \in SampleVals : mono' = Put(mono, i, x)
            /\ oob' = TRUE
    /\ i' = i + 1
    /\ UNCHANGED <<driverVars, decoderVars, samples, envelope, peakVars,
                   mutex, log, pc, stages>>

\* line 126: samples = mono, and mono goes out of scope
MixAssign ==
    /\ pc = "mixloop"
    /\ i >= Len(mono)
    /\ samples' = mono
    /\ mono' = <<>>
    /\ pc' = "env"
    /\ UNCHANGED <<driverVars, decoderVars, envelope, peakVars, mutex, log, i,
                   oob, stages>>

(***************************************************************************)
(* detectBpm: envelope (lines 129-139).                                    *)
(***************************************************************************)
\* line 130
EnvAlloc ==
    /\ pc = "env"
    /\ stages' = stages \cup {"envelope"}
    /\ envelope' = Zeros(Len(samples))
    /\ i' = 0
    /\ pc' = "rectify"
    /\ UNCHANGED <<driverVars, decoderVars, samples, mono, peakVars, mutex,
                   log, oob>>

\* lines 131-133: one iteration
RectifyStep ==
    /\ pc = "rectify"
    /\ i < Len(samples)
    /\ envelope' = Put(envelope, i, Rectify(At(samples, i)))
    /\ i' = i + 1
    /\ UNCHANGED <<driverVars, decoderVars, samples, mono, peakVars, mutex,
                   log, pc, oob, stages>>

\* lines 131 and 137: the rectifying loop ends, the smoothing loop starts
RectifyDone ==
    /\ pc = "rectify"
    /\ i >= Len(samples)
    /\ i' = 1
    /\ pc' = "smooth"
    /\ UNCHANGED <<driverVars, decoderVars, bufferVars, peakVars, mutex, log,
                   oob, stages>>

\* lines 137-139: one iteration
SmoothStep ==
    /\ pc = "smooth"
    /\ i < Len(envelope)
    /\ envelope' = Put(envelope, i,
                       Smooth(At(envelope, i), At(envelope, i - 1)))
    /\ i' = i + 1
    /\ UNCHANGED <<driverVars, decoderVars, samples, mono, peakVars, mutex,
                   log, pc, oob, stages>>

\* lines 137 and 142-146, 16-17: the smoothing loop ends and detectPeaks is
\* called with the threshold and gap of the pipeline
PeaksCall ==
    /\ pc = "smooth"
    /\ i >= Len(envelope)
    /\ stages' = stages \cup {"peaks"}
    /\ threshold' = PeakThreshold
    /\ minGap' = MinGapSamples
    /\ peaks' = <<>>
    /\ i' = 1
    /\ pc' = "scan"
    /\ UNCHANGED <<driverVars, decoderVars, bufferVars, bpm, mutex, log, oob>>

(***************************************************************************)
(* detectPeaks (lines 15-26) and the estimate (line 149).                  *)
(***************************************************************************)
\* lines 17-24: one iteration; reading signal outside its bounds is
\* undefined and may or may not record a peak
ScanStep ==
    /\ pc = "scan"
    /\ ScanContinues(i, Len(envelope))
    /\ IF i + 1 < Len(envelope)
       THEN /\ peaks' = PeakStep(peaks, envelope, i, threshold, minGap)
            /\ oob' = oob
       ELSE /\ peaks' \in {peaks, Append(peaks, i)}
            /\ oob' = TRUE
    /\ i' = i + 1
    /\ UNCHANGED <<driverVars, decoderVars, bufferVars, threshold, minGap,
                   bpm, mutex, log, pc, stages>>

\* lines 17 and 25: the loop ends, the peaks are returned
ScanDone ==
    /\ pc = "scan"
    /\ ~ScanContinues(i, Len(envelope))
    /\ pc' = "bpm"
    /\ UNCHANGED <<driverVars, decoderVars, bufferVars, peakVars, mutex, log,
                   i, oob, stages>>

\* line 149
Bpm ==
    /\ pc = "bpm"
    /\ stages' = stages \cup {"estimator"}
    /\ bpm' = RDiv(calculateBpm(peaks, sfinfo.samplerate), FromInt(BpmDivisor))
    /\ pc' = "res_lock"
    /\ UNCHANGED <<driverVars, decoderVars, bufferVars, threshold, minGap,
                   peaks, mutex, log, i, oob>>

\* line 152
ResultLock == LockAt("res_lock", "res_write")

\* line 153
ResultWrite ==
    WriteAt("res_write", "res_ret",
            <<[Line("Bpm", "cout") EXCEPT !.value = bpm]>>)

\* line 154
ResultReturn == ReturnAt("res_ret")

(***************************************************************************)
(* The program: main over a directory of at most MaxFiles entries.         *)
(***************************************************************************)
Directories == UNION {Seqs(Extensions, n) : n \in 0..MaxFiles}

\* the locals of detectBpm before a call
NoCall ==
    /\ found = "unset"
    /\ file = "unset"
    /\ closes = 0
    /\ sfinfo = NoInfo
    /\ nread = -1
    /\ decoded = <<>>
    /\ samples = <<>>
    /\ mono = <<>>
    /\ envelope = <<>>
    /\ threshold = Zero
    /\ minGap = 0
    /\ peaks = <<>>
    /\ bpm = Zero
    /\ i = 0
    /\ stages = {}

Init ==
    /\ dir \in Directories
    /\ idx = 0
    /\ pc = "list"
    /\ exitCode = -1
    /\ calls = [k \in 1..Len(dir) |-> 0]
    /\ mutex = FALSE
    /\ log = <<>>
    /\ handles = 0
    /\ oob = FALSE
    /\ NoCall

Pipeline ==
    \/ MixTest \/ MixStep \/ MixAssign
    \/ EnvAlloc \/ RectifyStep \/ RectifyDone \/ SmoothStep \/ PeaksCall
    \/ ScanStep \/ ScanDone \/ Bpm

Next ==
    \/ ListWavFiles \/ MainCall \/ MainSkip \/ MainReturn
    \/ CheckExists \/ NotFoundLock \/ NotFoundWrite \/ NotFoundReturn
    \/ Open \/ OpenFailedLock \/ OpenFailedWrite \/ OpenFailedReturn
    \/ Processing \/ CheckInvalid
    \/ InvalidLock \/ InvalidWrite \/ InvalidClose \/ InvalidReturn
    \/ Read \/ ReadFailedLock \/ ReadFailedWrite \/ ReadFailedClose
    \/ ReadFailedReturn \/ Close
    \/ Pipeline
    \/ ResultLock \/ ResultWrite \/ ResultReturn

Spec == Init /\ [][Next]_vars

\* the single thread of main runs until it returns
FairSpec == Spec /\ WF_vars(Next)

(***************************************************************************)
(* The stages of the pipeline on their own: each specification starts      *)
(* inside a call of detectBpm, at the stage's first line, with the stage's *)
(* input drawn from a bounded set.                                         *)
(***************************************************************************)
\* what does not depend on the stage's input
InCall(info, buf) ==
    /\ dir = <<".wav">>
    /\ idx = 0
    /\ exitCode = -1
    /\ calls = <<1>>
    /\ mutex = FALSE
    /\ log = <<[file |-> 0, kind |-> "Found", stream |-> "cout",
                locked |-> TRUE, value |-> Zero],
               [file |-> 0, kind |-> "Processing", stream |-> "cout",
                locked |-> FALSE, value |-> Zero]>>
    /\ handles = 0
    /\ found = "yes"
    /\ file = "closed"
    /\ closes = 1
    /\ sfinfo = info
    /\ nread = info.frames
    /\ decoded = buf
    /\ oob = FALSE
    /\ bpm = Zero

\* the mixing loop on every interleaved buffer of at most MaxBufLen samples
InitMix ==
    /\ \E ch \in 1..MaxMixChannels, fr \in 1..MaxBufLen :
          /\ fr * ch <= MaxBufLen
          /\ \E buf \in Seqs(SampleVals, fr * ch) :
                /\ InCall([frames |-> fr, channels |-> ch,
                           samplerate |-> 44100], buf)
                /\ samples = buf
    /\ pc = "mix"
    /\ mono = <<>>
    /\ envelope = <<>>
    /\ threshold = Zero
    /\ minGap = 0
    /\ peaks = <<>>
    /\ i = 0
    /\ stages = {}

NextMix == MixTest \/ MixStep \/ MixAssign

SpecMix == InitMix /\ [][NextMix]_vars

\* the envelope builder on every mono signal of at most MaxEnvLen samples
InitEnv ==
    /\ \E n \in 1..MaxEnvLen :
          \E sig \in Seqs(MonoVals, n) :
             /\ InCall([frames |-> n, channels |-> 1, samplerate |-> 44100],
                       sig)
             /\ samples = sig
    /\ pc = "env"
    /\ mono = <<>>
    /\ envelope = <<>>
    /\ threshold = Zero
    /\ minGap = 0
    /\ peaks = <<>>
    /\ i = 0
    /\ stages = {"mixer"}

NextEnv == EnvAlloc \/ RectifyStep \/ RectifyDone \/ SmoothStep \/ PeaksCall

SpecEnv == InitEnv /\ [][NextEnv]_vars

\* the envelope of scenario S6: local maxima at 10, 400 and 600
GapScenario == [k \in 1..602 |-> IF k - 1 \in {10, 400, 600}
                                 THEN FromInt(1) ELSE Zero]

\* detectPeaks and the estimate on every envelope of 1..MaxLen levels, with
\* every threshold and gap, and on the envelope of scenario S6 with the
\* gap of the pipeline
InitPeaks ==
    /\ \E sr \in SampleRates :
          \/ \E n \in 1..MaxLen :
                \E sig \in Seqs(Levels, n) :
                   /\ InCall([frames |-> n, channels |-> 1,
                              samplerate |-> sr], <<>>)
                   /\ envelope = sig
                   /\ threshold \in Thresholds
                   /\ minGap \in Gaps
          \/ /\ InCall([frames |-> 602, channels |-> 1, samplerate |-> sr],
                       <<>>)
             /\ envelope = GapScenario
             /\ threshold = PeakThreshold
             /\ minGap = MinGapSamples
    /\ pc = "scan"
    /\ samples = <<>>
    /\ mono = <<>>
    /\ peaks = <<>>
    /\ i = 1
    /\ stages = {"mixer", "envelope", "peaks"}

NextPeaks == ScanStep \/ ScanDone \/ Bpm

SpecPeaks == InitPeaks /\ [][NextPeaks]_vars

(***************************************************************************)
(* Properties.                                                             *)
(***************************************************************************)
ReturnSites == {"nf_ret", "of_ret", "ia_ret", "rf_ret", "res_ret"}

OutcomeKinds == {"NotFound", "OpenFailed", "InvalidAudio", "ReadFailed", "Bpm"}

ErrorKinds == OutcomeKinds \ {"Bpm"}

\* the outcome lines written for directory entry k (0-based)
OutcomesOf(k) ==
    SelectSeq(log, LAMBDA l : l.file = k /\ l.kind \in OutcomeKinds)

\* the lines of any kind written by detectBpm for directory entry k
LinesOf(k) == SelectSeq(log, LAMBDA l : l.file = k /\ l.kind # "Found")

IsAudio(ext) == ext \in {".wav", ".mp3"}

\* the list the rule of the peak picker builds from indices 1..k of e: index
\* j is appended iff e[j] is a strict local maximum above T and the list is
\* empty or j - last > G, in integer arithmetic
RECURSIVE RulePeaks(_, _, _, _)
RulePeaks(e, T, G, k) ==
    IF k < 1 THEN <<>>
    ELSE LET before == RulePeaks(e, T, G, k - 1)
             qualifies ==
                 /\ RLess(At(e, k - 1), At(e, k))
                 /\ RLess(At(e, k + 1), At(e, k))
                 /\ RLess(T, At(e, k))
         IN  IF qualifies /\ (before = <<>> \/ k - Back(before) > G)
             THEN Append(before, k)
             ELSE before

PeaksFollowRuleNonNegGap ==
    pc = "bpm" /\ minGap >= 0 =>
        /\ peaks = RulePeaks(envelope, threshold, minGap, Len(envelope) - 2)
        /\ envelope = GapScenario => peaks = <<10, 600>>

\* C2: after every step of the scan and in its result, the peak list is a
\* strictly increasing sequence of indices in [1, N-2], and every two
\* consecutive peaks are more than the gap apart.
C2_PeaksIncreasingAndSpaced ==
    /\ \A k \in 1..Len(peaks) :
          /\ peaks[k] >= 1
          /\ peaks[k] <= Len(envelope) - 2
    /\ \A k \in 1..Len(peaks) - 1 :
          /\ peaks[k] < peaks[k + 1]
          /\ peaks[k + 1] - peaks[k] > minGap

C2_Witness ==
    /\ pc = "bpm"
    /\ Len(peaks) >= 2
    /\ minGap >= 1
    /\ Len(envelope) <= MaxLen

\* the outcome the answers of the file system and the decoder call for
C3_Expected ==
    IF found = "no" THEN "NotFound"
    ELSE IF file = "null" THEN "OpenFailed"
    ELSE IF sfinfo.frames = 0 \/ sfinfo.channels = 0 THEN "InvalidAudio"
    ELSE IF nread # sfinfo.frames THEN "ReadFailed"
    ELSE "Bpm"

\* C3: detectBpm checks in a fixed order and reports exactly one outcome per
\* call: NotFound, else OpenFailed, else InvalidAudio, else ReadFailed, else
\* one BPM line; on an error no BPM line is written and no pipeline stage
\* runs.
C3_OneOutcomeInOrder ==
    /\ pc \in ReturnSites =>
          /\ Len(OutcomesOf(idx)) = 1
          /\ OutcomesOf(idx)[1].kind = C3_Expected
          /\ C3_Expected \in ErrorKinds => stages = {}
    /\ pc \notin {"list", "loop", "done"} =>
          /\ Len(OutcomesOf(idx)) <= 1
          /\ stages # {} =>
                /\ C3_Expected = "Bpm"
                /\ nread = sfinfo.frames
                /\ \A k \in 1..Len(OutcomesOf(idx)) :
                      OutcomesOf(idx)[k].kind = "Bpm"

C3_Witness ==
    /\ pc = "rf_ret"
    /\ found = "yes"
    /\ file = "closed"
    /\ sfinfo.frames = 3
    /\ sfinfo.channels = 1
    /\ nread = 2
    /\ OutcomesOf(idx)[1].kind = "ReadFailed"

\* C4: whenever the peak list handed to the estimator has fewer than 2
\* entries, calculateBpm returns 0 and the reported BPM is 0, written as a
\* normal BPM line and not as an error; an envelope that never exceeds the
\* threshold is such a case.
C4_FewPeaksGiveZero ==
    /\ pc \in {"res_lock", "res_write", "res_ret"} /\ Len(peaks) < 2 =>
          /\ calculateBpm(peaks, sfinfo.samplerate) = Zero
          /\ bpm = Zero
    /\ pc \in {"res_lock", "res_write", "res_ret"}
       /\ (\A k \in 1..Len(envelope) : ~RLess(threshold, envelope[k])) =>
          /\ peaks = <<>>
          /\ bpm = Zero
    /\ pc = "res_ret" /\ Len(peaks) < 2 =>
          /\ Len(OutcomesOf(idx)) = 1
          /\ OutcomesOf(idx)[1].kind = "Bpm"
          /\ OutcomesOf(idx)[1].stream = "cout"
          /\ OutcomesOf(idx)[1].value = Zero

C4_Witness ==
    /\ pc = "res_ret"
    /\ Len(peaks) = 1
    /\ Back(log).kind = "Bpm"
    /\ Back(log).value = Zero

C6_Sequential ==
    \A k \in 1..Len(dir) :
       /\ calls[k] <= 1
       /\ ~IsAudio(dir[k]) => calls[k] = 0 /\ Len(LinesOf(k - 1)) = 0
       /\ calls[k] = 1 =>
             /\ idx >= k - 1
             /\ \A j \in 1..k - 1 :
                   IsAudio(dir[j]) => Len(OutcomesOf(j - 1)) = 1
       /\ idx > k - 1 /\ IsAudio(dir[k]) =>
             calls[k] = 1 /\ Len(OutcomesOf(k - 1)) = 1

\* when main has returned, the exit code is 0 and every audio file has been
\* analysed once and has its outcome
C6_Completed ==
    pc = "done" =>
        /\ exitCode = 0
        /\ idx = Len(dir)
        /\ \A k \in 1..Len(dir) :
              IsAudio(dir[k]) =>
                  calls[k] = 1 /\ Len(OutcomesOf(k - 1)) = 1

\* C6: main processes the audio files of the directory one after another,
\* calling detectBpm exactly once for each and never for another entry; a
\* failing file does not stop the batch, every audio file eventually gets its
\* outcome reported, and the program ends with exit code 0.
C6_BatchCompletes ==
    /\ [](C6_Sequential /\ C6_Completed)
    /\ <>(pc = "done")

C6_Witness ==
    /\ pc = "done"
    /\ exitCode = 0
    /\ dir = <<".mp3", ".wav">>
    /\ OutcomesOf(0)[1].kind = "OpenFailed"
    /\ OutcomesOf(1)[1].kind = "Bpm"

\* (a + b) / 2
C7_Half(a, b) == Rat(a[1] * b[2] + b[1] * a[2], 2 * a[2] * b[2])

\* C7: the mixing step passes 1-channel input through unchanged; for C >= 2
\* channels the output has length floor(L / C) and its element i is the mean
\* of samples i*C and i*C + 1, so further channels do not influence it, and
\* no index beyond the input buffer is read.
C7_MonoMix ==
    /\ ~oob
    /\ pc = "env" =>
          LET C == sfinfo.channels
              L == Len(decoded)
          IN  IF C = 1 THEN samples = decoded
              ELSE /\ Len(samples) = L \div C
                   /\ \A k \in 0..Len(samples) - 1 :
                         /\ k * C + 1 < L
                         /\ At(samples, k) =
                                C7_Half(At(decoded, k * C),
                                        At(decoded, k * C + 1))

C7_Witness ==
    /\ pc = "env"
    /\ sfinfo.channels = 3
    /\ decoded = <<FromInt(1), Zero, FromInt(1), FromInt(-1), FromInt(-1), Zero>>
    /\ samples = <<Rat(1, 2), FromInt(-1)>>

\* C8: every console write made during a file's analysis (progress, error
\* and result lines of detectBpm) is performed while holding outputMutex.
C8_WritesHoldMutex ==
    \A k \in 1..Len(log) : log[k].kind # "Found" => log[k].locked

\* x >= 0
C9_NonNegative(x) == x[2] > 0 /\ x[1] >= 0

\* C9: the envelope has the length of the mono signal and is non-negative
\* after every step of the rectifying and smoothing passes, and e[0] stays
\* |s[0]|.
C9_EnvelopeNonNegative ==
    pc \in {"rectify", "smooth", "scan"} =>
        /\ Len(envelope) = Len(samples)
        /\ \A k \in 1..Len(envelope) : C9_NonNegative(envelope[k])
        /\ pc \in {"smooth", "scan"} =>
              envelope[1] = <<Abs(samples[1][1]), samples[1][2]>>
        /\ pc = "smooth" =>
              \A k \in 2..Len(envelope) :
                 k - 1 >= i =>
                     envelope[k] = <<Abs(samples[k][1]), samples[k][2]>>

C9_Witness ==
    /\ pc = "scan"
    /\ samples = <<Rat(-1, 2), FromInt(-1), Zero>>
    /\ envelope = <<Rat(1, 2), Rat(11, 20), Rat(99, 200)>>

\* C10: a decoder handle that was opened is closed exactly once before
\* detectBpm returns (before any pipeline stage on success), close is never
\* called when the file was not found or the open failed, at most one handle
\* is open at any time and none when the next file begins.
C10_HandleDiscipline ==
    /\ handles \in {0, 1}
    /\ handles = 1 <=> file = "open"
    /\ closes \in {0, 1}
    /\ closes = 1 <=> file = "closed"
    /\ pc \in {"list", "loop", "done", "exists", "open"} => handles = 0
    /\ pc \in {"nf_ret", "of_ret"} => closes = 0 /\ handles = 0
    /\ pc \in {"ia_ret", "rf_ret", "res_ret"} => closes = 1 /\ handles = 0
    /\ stages # {} => closes = 1 /\ handles = 0

C10_Witness ==
    /\ pc = "ia_ret"
    /\ idx = 1
    /\ closes = 1
    /\ handles = 0
    /\ Len(OutcomesOf(0)) = 1
    /\ OutcomesOf(0)[1].kind = "ReadFailed"
====
